---- MODULE Spec2Model ----
(***************************************************************************)
(* Model of flight_routes_api/backend.py: the callsign validator, the      *)
(* route resolver, the batch endpoint /api/routeset with its concurrent    *)
(* per-callsign lookups, and the api-key protected database endpoints.     *)
(*                                                                         *)
(* Strings that the code inspects character by character (callsigns and    *)
(* store keys) are sequences of one-character strings.  The key-value      *)
(* store is a function whose DOMAIN is the set of keys present.  The       *)
(* startup handler has run: redis_pool is not None in every state.         *)
(***************************************************************************)
EXTENDS Integers, Sequences, FiniteSets, TLC

(***************************************************************************)
(* Bounds of the model.                                                    *)
(***************************************************************************)
\* settings.plane_limit (default 100), scaled down
plane_limit == 2
\* set_route requests whose store write is outstanding at one time
MaxInflight == 2
\* longest token handed to the validator in SpecValidator
MaxTokenLen == 9

\* settings.api_key, the configured secret
settings_api_key == "secret"

None == [kind |-> "None"]

(***************************************************************************)
(* Characters and tokens.                                                  *)
(***************************************************************************)
UpperCase == {"A","B","C","D","E","F","G","H","I","J","K","L","M",
              "N","O","P","Q","R","S","T","U","V","W","X","Y","Z"}
Digits == {"0","1","2","3","4","5","6","7","8","9"}

AFR1 == <<"A","F","R","1">>
KLM0 == <<"K","L","M","0","0","0">>
DEOZK == <<"D","E","O","Z","K">>
AB1cX == <<"A","B","1",":","X">>
BAW2 == <<"B","A","W","2">>

\* callsigns clients put into batches
BatchCallsigns == {AFR1, KLM0, DEOZK}
\* callsigns used with the database endpoints
AdminCallsigns == {AFR1, KLM0, AB1cX}
\* characters of the tokens handed to the validator in SpecValidator
TokenAlphabet == {"A", "7", "a", "\n"}

(***************************************************************************)
(* CALLSIGN_REGEX.match(token):  ^[A-Z]{3}[0-9][A-Z0-9]{0,4}$              *)
(* re.match anchors at position 0.  Without re.MULTILINE, $ matches at the *)
(* end of the string and also just before a newline that is the last       *)
(* character of the string.                                                *)
(***************************************************************************)
DollarMatchesAt(s, n) ==
    \/ n = Len(s)
    \/ n + 1 = Len(s) /\ s[Len(s)] = "\n"

CALLSIGN_REGEX_match(s) ==
    /\ Len(s) >= 4
    /\ \A i \in 1..3 : s[i] \in UpperCase
    /\ s[4] \in Digits
    /\ \E k \in 0..4 :
          /\ 4 + k <= Len(s)
          /\ \A i \in 5..(4 + k) : s[i] \in UpperCase \cup Digits
          /\ DollarMatchesAt(s, 4 + k)

(***************************************************************************)
(* Store keys: f"route:{callsign}" and key.split(":")[1].                  *)
(***************************************************************************)
RoutePrefix == <<"r","o","u","t","e",":">>

\* variant: the callsign alone is the key
RouteKey_bare(callsign) == callsign

RouteKey(callsign) == RoutePrefix \o callsign

\* positions of ":" in s
ColonPositions(s) == {i \in 1..Len(s) : s[i] = ":"}

\* s.split(":")[1] for an s that contains at least one ":" : the text
\* between the first ":" and the second ":" (or the end of s)
SplitColon1(s) ==
    LET first == CHOOSE i \in ColonPositions(s) :
                     \A j \in ColonPositions(s) : i <= j
        later == {j \in ColonPositions(s) : j > first}
        stop  == IF later = {} THEN Len(s) + 1
                 ELSE CHOOSE j \in later : \A m \in later : j <= m
    IN  SubSeq(s, first + 1, stop - 1)

(***************************************************************************)
(* RouteResponse / RouteRequest and their JSON form.                       *)
(***************************************************************************)
IataAlias == "_airport_codes_iata"
IataName == "airport_codes_iata"

\* variant: the default record does not carry the queried callsign
UnknownRoute_anonymous(callsign) ==
    [airport_codes_iata |-> "unknown", airport_codes |-> "unknown",
     callsign |-> <<"u","n","k","n","o","w","n">>, plausible |-> 0]

\* RouteResponse(_airport_codes_iata="unknown", airport_codes="unknown",
\*               callsign=callsign, plausible=0)
UnknownRoute(callsign) ==
    [airport_codes_iata |-> "unknown", airport_codes |-> "unknown",
     callsign |-> callsign, plausible |-> 0]

\* variant: the two code fields are exchanged
dict_by_alias_swapped(route) ==
    (IataAlias :> route.airport_codes) @@
    [airport_codes |-> route.airport_codes_iata,
     callsign |-> route.callsign,
     plausible |-> route.plausible]

\* route.dict(by_alias=True)
dict_by_alias(route) ==
    (IataAlias :> route.airport_codes_iata) @@
    [airport_codes |-> route.airport_codes,
     callsign |-> route.callsign,
     plausible |-> route.plausible]

\* json.dumps(d): a store value that is JSON text encoding the object d
json_dumps(d) == [kind |-> "json", obj |-> d]

\* json.loads(value) succeeds exactly on JSON text
json_loadable(value) == value.kind = "json"
json_loads(value) == value.obj

\* RouteResponse(**d) validates: every field is required; the first field
\* is taken by alias or (populate_by_name) by name
RouteResponse_valid(d) ==
    /\ (IataAlias \in DOMAIN d) \/ (IataName \in DOMAIN d)
    /\ {"airport_codes", "callsign", "plausible"} \subseteq DOMAIN d

RouteResponse_from(d) ==
    [airport_codes_iata |-> IF IataAlias \in DOMAIN d THEN d[IataAlias]
                            ELSE d[IataName],
     airport_codes |-> d["airport_codes"],
     callsign |-> d["callsign"],
     plausible |-> d["plausible"]]

(***************************************************************************)
(* Inputs.                                                                 *)
(***************************************************************************)
\* well-formed RouteRequest bodies
RouteRequests ==
    [airport_codes_iata : {"CDG-ORD"},
     airport_codes : {"LFPG-KORD"},
     callsign : AdminCallsigns,
     plausible : {0, 1}]

\* values the data pipeline may have left under route:{c}: a well-formed
\* record, a record whose callsign field names another flight, text that
\* is not JSON, and a JSON object lacking a field
PipelineValues(c) ==
    { json_dumps(dict_by_alias([airport_codes_iata |-> "FRA-ORD",
                                airport_codes |-> "EDDF-KORD",
                                callsign |-> c, plausible |-> 1])) }
    \cup { json_dumps(dict_by_alias([airport_codes_iata |-> "LHR-JFK",
                                     airport_codes |-> "EGLL-KJFK",
                                     callsign |-> BAW2, plausible |-> 1])) }
    \cup { [kind |-> "text", obj |-> [callsign |-> c]] }
    \cup { json_dumps([callsign |-> c, plausible |-> 1]) }

\* callsigns the pipeline has populated
PipelineCallsigns == {AFR1, KLM0}

\* sequences over S of length 0..n
SeqUpTo(S, n) == UNION {[1..m -> S] : m \in 0..n}

\* the batches clients submit: every batch within the limit, and batches
\* one over the limit
PlaneLists ==
    SeqUpTo([callsign : BatchCallsigns], plane_limit)
    \cup [1..(plane_limit + 1) -> [callsign : {AFR1, DEOZK}]]

\* the api_key header of a request: absent, wrong, or the secret
Credentials == {"", "guess", settings_api_key}
NoHeader == ""

(***************************************************************************)
(* State.                                                                  *)
(***************************************************************************)
VARIABLES
    store,       \* the key-value store: key -> value, for the keys present
    planes,      \* planeList.planes of the batch request being served
    pc,          \* position of api_routeset: "idle", "gather" or "done"
    tasks,       \* the get_route_for_callsign tasks handed to gather
    completed,   \* indices of the finished tasks, in completion order
    storeCalls,  \* store commands served for the current batch request
    response,    \* the HTTP response of the batch request
    listing,     \* get_callsigns_by_plausibility between scan and mget
    adminResp,   \* the last response of a database endpoint
    lastSet,     \* callsign -> the route of the last set_route that stored it
    skipped,     \* scanned keys that had no value in the last mget
    inflight,    \* set commands sent to the store and not yet applied
    held         \* the contents the store had while the batch was pending

vars == <<store, planes, pc, tasks, completed, storeCalls, response,
          listing, adminResp, lastSet, skipped, inflight, held>>

batchVars == <<planes, pc, tasks, completed, storeCalls, response>>

\* redis_pool.get(key)
StoreGet(key) == IF key \in DOMAIN store THEN store[key] ELSE None

StoreError == [kind |-> "error"]

NoResponse == [status |-> 0, exc |-> "", body |-> <<>>]
IdleListing == [pc |-> "idle", op |-> "none", plausible |-> 0, keys |-> <<>>]
NoAdminResp == [op |-> "none", cred |-> NoHeader, arg |-> None, status |-> 0,
                exc |-> "", body |-> None, storeOps |-> 0]

NoRoutes == [callsign \in {} |-> None]

InitialStores ==
    UNION { { s \in [K -> UNION {PipelineValues(c) : c \in PipelineCallsigns}] :
                \A c \in PipelineCallsigns :
                    RouteKey(c) \in K => s[RouteKey(c)] \in PipelineValues(c) } :
            K \in SUBSET {RouteKey(c) : c \in PipelineCallsigns} }

Init ==
    /\ store \in InitialStores
    /\ planes = <<>>
    /\ pc = "idle"
    /\ tasks = <<>>
    /\ completed = <<>>
    /\ storeCalls = 0
    /\ response = NoResponse
    /\ listing = IdleListing
    /\ adminResp = NoAdminResp
    /\ lastSet = NoRoutes
    /\ skipped = 0
    /\ inflight = {}
    /\ held = {}

(***************************************************************************)
(* get_route_for_callsign, lines 133-144: the outcome once the store has   *)
(* replied to redis_pool.get(f"route:{callsign}").                         *)
(***************************************************************************)
get_route_for_callsign_raises(reply) ==
    \/ reply = StoreError
    \/ /\ reply # None
       /\ \/ ~json_loadable(reply)
          \/ ~RouteResponse_valid(json_loads(reply))

\* the exception a raising call ends with
get_route_for_callsign_exc(reply) ==
    IF reply = StoreError THEN "ConnectionError"
    ELSE IF ~json_loadable(reply) THEN "JSONDecodeError"
    ELSE "ValidationError"

get_route_for_callsign_result(callsign, reply) ==
    IF reply = None THEN UnknownRoute(callsign)
    ELSE RouteResponse_from(json_loads(reply))

(***************************************************************************)
(* api_routeset, lines 158-178.                                            *)
(***************************************************************************)
\* variant: the planes that match, each callsign once
RECURSIVE valid_planes_distinct(_)
valid_planes_distinct(pl) ==
    IF pl = <<>> THEN <<>>
    ELSE LET front == SubSeq(pl, 1, Len(pl) - 1)
             last == pl[Len(pl)]
         IN  valid_planes_distinct(front) \o
             (IF /\ CALLSIGN_REGEX_match(last.callsign)
                 /\ \A i \in 1..Len(front) : front[i].callsign # last.callsign
              THEN <<last>> ELSE <<>>)

\* lines 171-175: the planes whose callsign matches, in input order
RECURSIVE valid_planes(_)
valid_planes(pl) ==
    IF pl = <<>> THEN <<>>
    ELSE (IF CALLSIGN_REGEX_match(Head(pl).callsign) THEN <<Head(pl)>> ELSE <<>>)
         \o valid_planes(Tail(pl))

\* variant: a callsign the previous request has resolved is answered from
\* what that request was given, without asking the store
NewTasks_memo(pl) ==
    LET vp == valid_planes(pl)
        known(c) == {j \in 1..Len(tasks) :
                        tasks[j].callsign = c /\ tasks[j].status = "done"}
    IN  [i \in 1..Len(vp) |->
            IF known(vp[i].callsign) # {}
            THEN [tasks[CHOOSE j \in known(vp[i].callsign) : TRUE]
                     EXCEPT !.status = "replied"]
            ELSE [callsign |-> vp[i].callsign, status |-> "pending",
                  reply |-> None, result |-> None]]

\* line 176: one task per valid plane
NewTasks(pl) ==
    [i \in 1..Len(valid_planes(pl)) |->
        [callsign |-> valid_planes(pl)[i].callsign, status |-> "pending",
         reply |-> None, result |-> None]]

\* variant: the limit test rejects a batch of exactly plane_limit planes
api_routeset_limit_exclusive(pl) ==
    /\ pc \in {"idle", "done"}
    /\ planes' = pl
    /\ completed' = <<>>
    /\ storeCalls' = 0
    /\ IF Len(pl) >= plane_limit
       THEN /\ pc' = "done"
            /\ tasks' = <<>>
            /\ response' = [status |-> 413, exc |-> "HTTPException", body |-> <<>>]
       ELSE /\ pc' = "gather"
            /\ tasks' = NewTasks(pl)
            /\ response' = NoResponse
    /\ held' = {store}
    /\ UNCHANGED <<store, listing, adminResp, lastSet, skipped, inflight>>

\* the request arrives and runs up to `await asyncio.gather(*tasks)`.
\* One batch request is followed at a time; tasks that a failed request
\* left running are dropped when the next request arrives (gather has
\* already discarded their results).
api_routeset(pl) ==
    /\ pc \in {"idle", "done"}
    /\ planes' = pl
    /\ completed' = <<>>
    /\ storeCalls' = 0
    /\ IF Len(pl) > plane_limit
       THEN /\ pc' = "done"
            /\ tasks' = <<>>
            /\ response' = [status |-> 413, exc |-> "HTTPException", body |-> <<>>]
       ELSE /\ pc' = "gather"
            /\ tasks' = NewTasks(pl)
            /\ response' = NoResponse
    /\ held' = {store}
    /\ UNCHANGED <<store, listing, adminResp, lastSet, skipped, inflight>>

\* the store serves the get of task i: the value under the key, or a failure
TaskStoreReply(i) ==
    /\ i \in 1..Len(tasks)
    /\ tasks[i].status = "pending"
    /\ \E reply \in {StoreGet(RouteKey(tasks[i].callsign)), StoreError} :
          tasks' = [tasks EXCEPT ![i].status = "replied", ![i].reply = reply]
    /\ storeCalls' = storeCalls + 1
    /\ UNCHANGED <<store, planes, pc, completed, response, listing, adminResp,
                   lastSet, skipped, inflight, held>>

\* variant: a failing lookup is turned into the unknown record
TaskFinish_swallow(i) ==
    /\ i \in 1..Len(tasks)
    /\ tasks[i].status = "replied"
    /\ completed' = Append(completed, i)
    /\ tasks' = [tasks EXCEPT
          ![i].status = "done",
          ![i].result = IF get_route_for_callsign_raises(tasks[i].reply)
                        THEN UnknownRoute(tasks[i].callsign)
                        ELSE get_route_for_callsign_result(
                                 tasks[i].callsign, tasks[i].reply)]
    /\ UNCHANGED <<pc, response>>
    /\ UNCHANGED <<store, planes, storeCalls, listing, adminResp, lastSet,
                   skipped, inflight, held>>

\* task i resumes with the reply and finishes; gather propagates the first
\* exception to the awaiting handler at once and leaves the siblings running
TaskFinish(i) ==
    /\ i \in 1..Len(tasks)
    /\ tasks[i].status = "replied"
    /\ completed' = Append(completed, i)
    /\ IF get_route_for_callsign_raises(tasks[i].reply)
       THEN /\ tasks' = [tasks EXCEPT ![i].status = "failed"]
            /\ IF pc = "gather"
               THEN /\ pc' = "done"
                    /\ response' = [status |-> 500, body |-> <<>>,
                                    exc |-> get_route_for_callsign_exc(tasks[i].reply)]
               ELSE UNCHANGED <<pc, response>>
       ELSE /\ tasks' = [tasks EXCEPT
                  ![i].status = "done",
                  ![i].result = get_route_for_callsign_result(
                                    tasks[i].callsign, tasks[i].reply)]
            /\ UNCHANGED <<pc, response>>
    /\ UNCHANGED <<store, planes, storeCalls, listing, adminResp, lastSet,
                   skipped, inflight, held>>

\* variant: the results in the order in which the tasks finished
gather_result_as_completed(ts) == [i \in 1..Len(ts) |-> ts[completed[i]].result]

\* gather's result: the results in the order of the tasks handed to it
gather_result(ts) == [i \in 1..Len(ts) |-> ts[i].result]

\* variant: gather resolves with the first task that has a result
GatherReturn_first_completed ==
    /\ pc = "gather"
    /\ \E i \in 1..Len(tasks) : tasks[i].status = "done"
    /\ pc' = "done"
    /\ response' = [status |-> 200, exc |-> "", body |-> gather_result(tasks)]
    /\ UNCHANGED <<store, planes, tasks, completed, storeCalls, listing,
                   adminResp, lastSet, skipped, inflight, held>>

\* every task has a result: gather resolves and the handler returns it
GatherReturn ==
    /\ pc = "gather"
    /\ \A i \in 1..Len(tasks) : tasks[i].status = "done"
    /\ pc' = "done"
    /\ response' = [status |-> 200, exc |-> "", body |-> gather_result(tasks)]
    /\ UNCHANGED <<store, planes, tasks, completed, storeCalls, listing,
                   adminResp, lastSet, skipped, inflight, held>>

\* the steps of the tasks and of gather
TaskNext ==
    \/ \E i \in 1..plane_limit : TaskStoreReply(i)
    \/ \E i \in 1..plane_limit : TaskFinish(i)
    \/ GatherReturn

BatchNext ==
    \/ \E pl \in PlaneLists : api_routeset(pl)
    \/ TaskNext

(***************************************************************************)
(* The api-key dependency, lines 106-116.  APIKeyHeader(auto_error=True)   *)
(* rejects a request without the header with 403; get_api_key rejects a    *)
(* header different from settings.api_key with 403.  A dependency runs     *)
(* before the body of the handler.                                         *)
(***************************************************************************)
\* variant: any header that is present passes
get_api_key_any(api_key_header) == api_key_header # NoHeader

get_api_key(api_key_header) ==
    /\ api_key_header # NoHeader
    /\ api_key_header = settings_api_key

AdminResponse(op, cred, arg, status, exc, body, storeOps) ==
    [op |-> op, cred |-> cred, arg |-> arg, status |-> status, exc |-> exc,
     body |-> body, storeOps |-> storeOps]

Forbidden(op, cred, arg) ==
    AdminResponse(op, cred, arg, 403, "HTTPException", None, 0)

\* redis_pool.scan_iter("route:*"): the keys with the prefix, each once,
\* in an order the store chooses
MatchesRouteGlob(key) ==
    /\ Len(key) >= Len(RoutePrefix)
    /\ SubSeq(key, 1, Len(RoutePrefix)) = RoutePrefix

Orderings(S) ==
    {f \in [1..Cardinality(S) -> S] : \A i, j \in DOMAIN f : f[i] = f[j] => i = j}

scan_iter == Orderings({key \in DOMAIN store : MatchesRouteGlob(key)})

\* get_all_callsigns, lines 186-195
get_all_callsigns(cred) ==
    /\ listing.pc = "idle"
    /\ IF ~get_api_key(cred)
       THEN adminResp' = Forbidden("all_callsigns", cred, None)
       ELSE \/ adminResp' = AdminResponse("all_callsigns", cred, None, 500,
                                          "ConnectionError", None, 1)
            \/ \E keys \in scan_iter :
                  adminResp' = AdminResponse("all_callsigns", cred, None, 200, "",
                      [callsigns |-> [i \in 1..Len(keys) |-> SplitColon1(keys[i])]],
                      1)
    /\ UNCHANGED <<store, listing, lastSet, skipped, inflight, held, batchVars>>

\* the handlers of lines 217-234 pass their constant to
\* get_callsigns_by_plausibility
PlausibleArg(op) == IF op = "plausible_callsigns" THEN 1 ELSE 0

ListingOps == {"plausible_callsigns", "unplausible_callsigns"}

\* get_unplausible_callsigns / get_plausible_callsigns up to the end of the
\* scan of line 204.  With no key, line 205 skips the assignment of
\* callsigns and line 214 raises UnboundLocalError.
get_callsigns_by_plausibility_scan(op, cred) ==
    /\ listing.pc = "idle"
    /\ IF ~get_api_key(cred)
       THEN /\ adminResp' = Forbidden(op, cred, None)
            /\ UNCHANGED listing
       ELSE \/ /\ adminResp' = AdminResponse(op, cred, None, 500,
                                             "ConnectionError", None, 1)
               /\ UNCHANGED listing
            \/ \E keys \in scan_iter :
                  IF keys = <<>>
                  THEN /\ adminResp' = AdminResponse(op, cred, None, 500,
                                           "UnboundLocalError", None, 1)
                       /\ UNCHANGED listing
                  ELSE /\ listing' = [pc |-> "scanned", op |-> op,
                                      plausible |-> PlausibleArg(op),
                                      keys |-> keys]
                       /\ UNCHANGED adminResp
    /\ UNCHANGED <<store, lastSet, skipped, inflight, held, batchVars>>

\* variant: the absent values are dropped before keys and values are paired
filter_by_plausibility_compact(keys, values, plausible) ==
    LET present == SelectSeq(values, LAMBDA v : v # None)
        hit(i) == /\ "plausible" \in DOMAIN json_loads(present[i])
                  /\ json_loads(present[i])["plausible"] = plausible
        hits == SelectSeq([i \in 1..Len(present) |-> i], hit)
    IN  [n \in 1..Len(hits) |-> SplitColon1(keys[hits[n]])]

\* lines 207-212: the callsigns of the keys whose value is present and has
\* the plausible flag asked for, in key order
RECURSIVE filter_by_plausibility(_, _, _)
filter_by_plausibility(keys, values, plausible) ==
    IF keys = <<>> THEN <<>>
    ELSE (IF /\ Head(values) # None
             /\ "plausible" \in DOMAIN json_loads(Head(values))
             /\ json_loads(Head(values))["plausible"] = plausible
          THEN <<SplitColon1(Head(keys))>> ELSE <<>>)
         \o filter_by_plausibility(Tail(keys), Tail(values), plausible)

\* lines 206-214: redis_pool.mget(*keys), then the filter
get_callsigns_by_plausibility_mget ==
    /\ listing.pc = "scanned"
    /\ LET keys == listing.keys
           values == [i \in 1..Len(keys) |-> StoreGet(keys[i])]
           op == listing.op
       IN  \/ adminResp' = AdminResponse(op, settings_api_key, None, 500,
                                         "ConnectionError", None, 2)
           \/ IF \E i \in 1..Len(keys) :
                    values[i] # None /\ ~json_loadable(values[i])
              THEN adminResp' = AdminResponse(op, settings_api_key, None, 500,
                                              "JSONDecodeError", None, 2)
              ELSE adminResp' = AdminResponse(op, settings_api_key, None, 200, "",
                      [callsigns |->
                          filter_by_plausibility(keys, values, listing.plausible)],
                      2)
    /\ listing' = IdleListing
    /\ skipped' = Cardinality({i \in 1..Len(listing.keys) :
                                 StoreGet(listing.keys[i]) = None})
    /\ UNCHANGED <<store, lastSet, inflight, held, batchVars>>

\* variant: a stored value that cannot be parsed is answered like a miss
get_route_lenient(callsign, cred) ==
    /\ listing.pc = "idle"
    /\ LET arg == [callsign |-> callsign] IN
       IF ~get_api_key(cred)
       THEN adminResp' = Forbidden("get_route", cred, arg)
       ELSE \E reply \in {StoreGet(RouteKey(callsign)), StoreError} :
              IF reply = StoreError
              THEN adminResp' = AdminResponse("get_route", cred, arg, 500,
                                    get_route_for_callsign_exc(reply), None, 1)
              ELSE adminResp' = AdminResponse("get_route", cred, arg, 200, "",
                                    IF get_route_for_callsign_raises(reply)
                                    THEN UnknownRoute(callsign)
                                    ELSE get_route_for_callsign_result(callsign, reply),
                                    1)
    /\ UNCHANGED <<store, listing, lastSet, skipped, inflight, held, batchVars>>

\* get_route, lines 240-246
get_route(callsign, cred) ==
    /\ listing.pc = "idle"
    /\ LET arg == [callsign |-> callsign] IN
       IF ~get_api_key(cred)
       THEN adminResp' = Forbidden("get_route", cred, arg)
       ELSE \E reply \in {StoreGet(RouteKey(callsign)), StoreError} :
              IF get_route_for_callsign_raises(reply)
              THEN adminResp' = AdminResponse("get_route", cred, arg, 500,
                                    get_route_for_callsign_exc(reply), None, 1)
              ELSE adminResp' = AdminResponse("get_route", cred, arg, 200, "",
                                    get_route_for_callsign_result(callsign, reply), 1)
    /\ UNCHANGED <<store, listing, lastSet, skipped, inflight, held, batchVars>>

\* variant: the write replaces the whole content of the store
set_route_flush(route, cred) ==
    /\ listing.pc = "idle" \/ get_api_key(cred)
    /\ IF ~get_api_key(cred)
       THEN /\ adminResp' = Forbidden("set_route", cred, route)
            /\ UNCHANGED <<store, lastSet, held>>
       ELSE \/ /\ adminResp' = AdminResponse("set_route", cred, route, 500,
                                             "ConnectionError", None, 1)
               /\ UNCHANGED <<store, lastSet, held>>
            \/ /\ store' = (RouteKey(route.callsign) :>
                               json_dumps(dict_by_alias(route)))
               /\ lastSet' = (route.callsign :> route) @@ lastSet
               /\ held' = IF pc = "gather" THEN held \cup {store'} ELSE held
               /\ adminResp' = AdminResponse("set_route", cred, route, 200, "",
                                   [status |-> "success",
                                    callsign |-> route.callsign], 1)
    /\ UNCHANGED <<listing, skipped, inflight, batchVars>>

\* set_route, lines 250-260
set_route(route, cred) ==
    /\ listing.pc = "idle" \/ get_api_key(cred)
    /\ IF ~get_api_key(cred)
       THEN /\ adminResp' = Forbidden("set_route", cred, route)
            /\ UNCHANGED <<store, lastSet, held>>
       ELSE \/ /\ adminResp' = AdminResponse("set_route", cred, route, 500,
                                             "ConnectionError", None, 1)
               /\ UNCHANGED <<store, lastSet, held>>
            \/ /\ store' = (RouteKey(route.callsign) :>
                               json_dumps(dict_by_alias(route))) @@ store
               /\ lastSet' = (route.callsign :> route) @@ lastSet
               /\ held' = IF pc = "gather" THEN held \cup {store'} ELSE held
               /\ adminResp' = AdminResponse("set_route", cred, route, 200, "",
                                   [status |-> "success",
                                    callsign |-> route.callsign], 1)
    /\ UNCHANGED <<listing, skipped, inflight, batchVars>>

AdminNext ==
    \/ \E cred \in Credentials : get_all_callsigns(cred)
    \/ \E op \in ListingOps, cred \in Credentials :
          get_callsigns_by_plausibility_scan(op, cred)
    \/ get_callsigns_by_plausibility_mget
    \/ \E c \in AdminCallsigns, cred \in Credentials : get_route(c, cred)
    \/ \E route \in RouteRequests, cred \in Credentials : set_route(route, cred)

Next == BatchNext

\* the batch endpoint
Spec == Init /\ [][Next]_vars

\* the batch endpoint on an event loop that resumes every task that is ready
\* and a store that answers every get, with a value or with a failure
Fairness ==
    /\ \A i \in 1..plane_limit : WF_vars(TaskStoreReply(i))
    /\ \A i \in 1..plane_limit : WF_vars(TaskFinish(i))
    /\ WF_vars(GatherReturn)

SpecFair == Init /\ [][Next]_vars /\ Fairness

\* the database endpoints
SpecAdmin == Init /\ [][AdminNext]_vars

\* the two ways to resolve one callsign: a batch of at most one plane, and
\* the single lookup
LookupNext ==
    \/ \E pl \in SeqUpTo([callsign : BatchCallsigns], 1) : api_routeset(pl)
    \/ TaskNext
    \/ \E c \in AdminCallsigns, cred \in Credentials : get_route(c, cred)

SpecLookup == Init /\ [][LookupNext]_vars

\* every endpoint: the database endpoints next to a batch of one plane or
\* of one plane more than the limit
FramePlaneLists ==
    {<<[callsign |-> AFR1]>>, [i \in 1..(plane_limit + 1) |-> [callsign |-> AFR1]]}

FrameRoutes == {route \in RouteRequests : route.callsign = AFR1}

FrameStores == {s \in InitialStores : DOMAIN s \subseteq {RouteKey(KLM0)}}

\* the state after construction, over a given set of stores
InitIn(stores) ==
    /\ store \in stores
    /\ planes = <<>>
    /\ pc = "idle"
    /\ tasks = <<>>
    /\ completed = <<>>
    /\ storeCalls = 0
    /\ response = NoResponse
    /\ listing = IdleListing
    /\ adminResp = NoAdminResp
    /\ lastSet = NoRoutes
    /\ skipped = 0
    /\ inflight = {}
    /\ held = {}

InitFrame == InitIn(FrameStores)

FrameNext ==
    \/ \E pl \in FramePlaneLists : api_routeset(pl)
    \/ TaskNext
    \/ \E cred \in Credentials : get_all_callsigns(cred)
    \/ \E cred \in Credentials :
          get_callsigns_by_plausibility_scan("plausible_callsigns", cred)
    \/ get_callsigns_by_plausibility_mget
    \/ \E cred \in Credentials : get_route(AFR1, cred)
    \/ \E route \in FrameRoutes, cred \in Credentials : set_route(route, cred)

SpecFrame == InitFrame /\ [][FrameNext]_vars

\* set_route, lines 250-259, as two steps: the handler runs up to
\* `await redis_pool.set(...)` and the write of request w is outstanding
set_route_call(w, route, cred) ==
    /\ Cardinality(inflight) < MaxInflight
    /\ \A wr \in inflight : wr.w # w
    /\ IF ~get_api_key(cred)
       THEN /\ adminResp' = Forbidden("set_route", cred, route)
            /\ UNCHANGED inflight
       ELSE /\ inflight' = inflight \cup
                  {[w |-> w, route |-> route,
                    key |-> RouteKey(route.callsign),
                    value |-> json_dumps(dict_by_alias(route))]}
            /\ UNCHANGED adminResp
    /\ UNCHANGED <<store, listing, lastSet, skipped, held, batchVars>>

\* variant: the store merges the new plausible flag into the value it holds
set_route_reply_merge(w) ==
    \E wr \in inflight :
        /\ wr.w = w
        /\ inflight' = inflight \ {wr}
        /\ \/ /\ adminResp' = AdminResponse("set_route", settings_api_key, wr.route,
                                            500, "ConnectionError", None, 1)
              /\ UNCHANGED <<store, lastSet, held>>
           \/ /\ store' = (wr.key :>
                             IF wr.key \in DOMAIN store
                             THEN json_dumps([json_loads(store[wr.key]) EXCEPT
                                      !["plausible"] = wr.route.plausible])
                             ELSE wr.value) @@ store
              /\ lastSet' = (wr.route.callsign :> wr.route) @@ lastSet
              /\ held' = IF pc = "gather" THEN held \cup {store'} ELSE held
              /\ adminResp' = AdminResponse("set_route", settings_api_key, wr.route,
                                  200, "",
                                  [status |-> "success",
                                   callsign |-> wr.route.callsign], 1)
        /\ UNCHANGED <<listing, skipped, batchVars>>

\* the store applies the write of request w, or fails, and the handler
\* answers (lines 259-260); lastSet records the request applied last
set_route_reply(w) ==
    \E wr \in inflight :
        /\ wr.w = w
        /\ inflight' = inflight \ {wr}
        /\ \/ /\ adminResp' = AdminResponse("set_route", settings_api_key, wr.route,
                                            500, "ConnectionError", None, 1)
              /\ UNCHANGED <<store, lastSet, held>>
           \/ /\ store' = (wr.key :> wr.value) @@ store
              /\ lastSet' = (wr.route.callsign :> wr.route) @@ lastSet
              /\ held' = IF pc = "gather" THEN held \cup {store'} ELSE held
              /\ adminResp' = AdminResponse("set_route", settings_api_key, wr.route,
                                  200, "",
                                  [status |-> "success",
                                   callsign |-> wr.route.callsign], 1)
        /\ UNCHANGED <<listing, skipped, batchVars>>

\* two records per callsign that differ in every field but the callsign
WriterCallsigns == {AFR1, AB1cX}

WriterRoutes ==
    [airport_codes_iata : {"CDG-ORD"}, airport_codes : {"LFPG-KORD"},
     callsign : WriterCallsigns, plausible : {1}]
    \cup [airport_codes_iata : {"unknown"}, airport_codes : {"unknown"},
          callsign : WriterCallsigns, plausible : {0}]

\* concurrent set_route requests and reads on a store that starts empty
WritersNext ==
    \/ \E w \in 1..MaxInflight, route \in WriterRoutes, cred \in Credentials :
          set_route_call(w, route, cred)
    \/ \E w \in 1..MaxInflight : set_route_reply(w)
    \/ \E c \in WriterCallsigns : get_route(c, settings_api_key)

SpecWriters == InitIn({[key \in {} |-> None]}) /\ [][WritersNext]_vars

\* batch requests next to authorized set_route requests, on a store that
\* starts empty
ConcRoutes ==
    { [airport_codes_iata |-> "CDG-ORD", airport_codes |-> "LFPG-KORD",
       callsign |-> AFR1, plausible |-> 1],
      [airport_codes_iata |-> "CDG-JFK", airport_codes |-> "LFPG-KJFK",
       callsign |-> AFR1, plausible |-> 0],
      [airport_codes_iata |-> "AMS-JFK", airport_codes |-> "EHAM-KJFK",
       callsign |-> KLM0, plausible |-> 1] }

ConcPlaneLists ==
    { <<[callsign |-> AFR1]>>, <<[callsign |-> AFR1], [callsign |-> KLM0]>> }

ConcNext ==
    \/ \E pl \in ConcPlaneLists : api_routeset(pl)
    \/ TaskNext
    \/ \E route \in ConcRoutes : set_route(route, settings_api_key)

SpecConc == InitIn({[key \in {} |-> None]}) /\ [][ConcNext]_vars

\* another client of the store removes a key; between the scan of line 204
\* and the mget of line 206 this is the key-without-value race
KeyVanishes(key) ==
    /\ key \in DOMAIN store
    /\ store' = [k \in DOMAIN store \ {key} |-> store[k]]
    /\ UNCHANGED <<listing, adminResp, lastSet, skipped, inflight, held, batchVars>>

\* the listings by plausibility on a store whose keys may vanish
VanishNext ==
    \/ \E op \in ListingOps, cred \in Credentials :
          get_callsigns_by_plausibility_scan(op, cred)
    \/ get_callsigns_by_plausibility_mget
    \/ \E key \in DOMAIN store : KeyVanishes(key)

SpecVanish == Init /\ [][VanishNext]_vars

\* the validator applied by the batch endpoint to one token
EmptyStore == [key \in {} |-> None]

Tokens == SeqUpTo(TokenAlphabet, MaxTokenLen)

InitValidator ==
    /\ store = EmptyStore
    /\ planes = <<>>
    /\ pc = "idle"
    /\ tasks = <<>>
    /\ completed = <<>>
    /\ storeCalls = 0
    /\ response = NoResponse
    /\ listing = IdleListing
    /\ adminResp = NoAdminResp
    /\ lastSet = NoRoutes
    /\ skipped = 0
    /\ inflight = {}
    /\ held = {}

ValidatorNext ==
    /\ pc = "idle"
    /\ \E token \in Tokens : api_routeset(<<[callsign |-> token]>>)

SpecValidator == InitValidator /\ [][ValidatorNext]_vars

(***************************************************************************)
(* Properties of the batch endpoint, checked under Spec.                   *)
(***************************************************************************)
\* the callsigns of the planes that pass the validator, in input order
ValidCallsigns(pl) ==
    LET kept == SelectSeq(pl, LAMBDA plane : CALLSIGN_REGEX_match(plane.callsign))
    IN  [i \in 1..Len(kept) |-> kept[i].callsign]

\* the record the resolver yields for callsign c from the store as it is
Resolution(c) == get_route_for_callsign_result(c, StoreGet(RouteKey(c)))

\* C1: in every successful batch response the i-th record is the resolution
\* of the i-th valid callsign of the input, whatever the order in which the
\* lookups completed.
C1_ResponseInInputOrder ==
    response.status = 200 =>
        /\ Len(response.body) = Len(ValidCallsigns(planes))
        /\ \A i \in 1..Len(response.body) :
              response.body[i] = Resolution(ValidCallsigns(planes)[i])

\* a successful response whose second lookup completed before the first and
\* whose two records differ
C1_Witness ==
    /\ response.status = 200
    /\ Len(completed) = 2
    /\ completed[1] = 2
    /\ response.body[1] # response.body[2]

\* the number of positions of the sequence s that satisfy Test
Occurrences(s, Test(_)) == Cardinality({i \in 1..Len(s) : Test(s[i])})

\* C2: a successful batch response holds one record per input item whose
\* callsign passes the validator and none for the others; a callsign
\* submitted k times yields k records.
C2_OneRecordPerValidItem ==
    response.status = 200 =>
        /\ Len(response.body) =
              Occurrences(planes, LAMBDA plane : CALLSIGN_REGEX_match(plane.callsign))
        /\ Len(tasks) = Len(response.body)
        /\ \A c \in BatchCallsigns :
              Occurrences(tasks, LAMBDA t : t.callsign = c) =
                  IF CALLSIGN_REGEX_match(c)
                  THEN Occurrences(planes, LAMBDA plane : plane.callsign = c)
                  ELSE 0

\* a successful response to a batch that names one valid callsign twice
C2_Witness ==
    /\ response.status = 200
    /\ Len(planes) = 2
    /\ planes[1] = planes[2]
    /\ Len(response.body) = 2

\* C3: a batch of more than plane_limit planes is answered 413 without any
\* task and without any store command, however many of its callsigns are
\* valid; a batch of at most plane_limit planes is not answered 413 and gets
\* one task per valid plane.
C3_LimitBoundary ==
    /\ Len(planes) > plane_limit =>
          /\ pc = "done"
          /\ response.status = 413
          /\ tasks = <<>>
          /\ storeCalls = 0
    /\ Len(planes) <= plane_limit /\ pc # "idle" =>
          /\ response.status # 413
          /\ Len(tasks) = Len(ValidCallsigns(planes))
          /\ pc = "done" => response.status \in {200, 500}

\* a batch one over the limit, holding valid callsigns, was answered 413
C3_Witness ==
    /\ Len(planes) = plane_limit + 1
    /\ \E i \in 1..Len(planes) : CALLSIGN_REGEX_match(planes[i].callsign)
    /\ response.status = 413

\* the store failed, or the value is not JSON or lacks a field of the record
FaultyReply(reply) ==
    \/ reply = StoreError
    \/ /\ reply # None
       /\ \/ reply.kind # "json"
          \/ ~({IataAlias, "airport_codes", "callsign", "plausible"}
                  \subseteq DOMAIN reply.obj)

\* C10: once a lookup of the batch has ended on a store failure or on an
\* unparseable value, the request has failed with 500 and an empty body: no
\* list with the records of the sibling lookups is returned.
C10_NoPartialSuccess ==
    (\E i \in 1..Len(tasks) :
        tasks[i].status \in {"done", "failed"} /\ FaultyReply(tasks[i].reply))
    => /\ pc = "done"
       /\ response.status = 500
       /\ response.body = <<>>

\* one lookup failed after its sibling had succeeded
C10_Witness ==
    /\ Len(completed) = 2
    /\ tasks[completed[1]].status = "done"
    /\ tasks[completed[2]].status = "failed"
    /\ response.status = 500

(***************************************************************************)
(* The validator, checked under SpecValidator.                             *)
(***************************************************************************)
\* 3 uppercase letters, one digit, 0 to 4 uppercase letters or digits, and
\* nothing else
CallsignGrammar(s) ==
    /\ Len(s) \in 4..8
    /\ \A i \in 1..3 : s[i] \in UpperCase
    /\ s[4] \in Digits
    /\ \A i \in 5..Len(s) : s[i] \in UpperCase \cup Digits

\* C4: the batch endpoint keeps a token exactly when it is 3 uppercase
\* letters, one digit and 0 to 4 further uppercase letters or digits, with
\* nothing before or after.
C4_ValidatorIsGrammar ==
    Len(planes) = 1 =>
        (Len(tasks) = 1 <=> CallsignGrammar(planes[1].callsign))

(***************************************************************************)
(* The resolver, checked under SpecLookup (no write: the store is the one  *)
(* the lookups read).                                                      *)
(***************************************************************************)
\* the record returned for a callsign c without stored entry
UnknownRecordFor(c) ==
    [airport_codes_iata |-> "unknown", airport_codes |-> "unknown",
     callsign |-> c, plausible |-> 0]

\* C5: a lookup to which the store answers that route:c is absent, in a
\* batch or alone, does not fail and yields the unknown record for c.
C5_AbsentYieldsUnknown ==
    /\ \A i \in 1..Len(tasks) :
          tasks[i].status \in {"done", "failed"} /\ tasks[i].reply = None
          => /\ tasks[i].status = "done"
             /\ tasks[i].result = UnknownRecordFor(tasks[i].callsign)
    /\ (response.status = 200 /\ Len(planes) = 1 /\ Len(response.body) = 1
            /\ RouteKey(planes[1].callsign) \notin DOMAIN store)
       => response.body[1] = UnknownRecordFor(planes[1].callsign)
    /\ (/\ adminResp.op = "get_route"
        /\ adminResp.cred = settings_api_key
        /\ adminResp.exc # "ConnectionError"
        /\ RouteKey(adminResp.arg.callsign) \notin DOMAIN store)
       => /\ adminResp.status = 200
          /\ adminResp.body = UnknownRecordFor(adminResp.arg.callsign)

\* both a batch item and a single lookup met an absent key
C5_Witness ==
    /\ response.status = 200
    /\ Len(response.body) = 1
    /\ tasks[1].reply = None
    /\ adminResp.op = "get_route"
    /\ adminResp.status = 200
    /\ RouteKey(adminResp.arg.callsign) \notin DOMAIN store

(***************************************************************************)
(* The database endpoints, checked under SpecAdmin.  Every store write of  *)
(* SpecAdmin is a set_route, and every set_route replaces adminResp: while *)
(* adminResp is the response of a read, the store is the one it read.      *)
(***************************************************************************)
\* C6: a get_route(R.callsign) that follows an authorized set_route(R), with
\* no other write to that key in between, returns R in all four fields.
C6_SetThenGet ==
    (/\ adminResp.op = "get_route"
     /\ adminResp.cred = settings_api_key
     /\ adminResp.exc # "ConnectionError"
     /\ adminResp.arg.callsign \in DOMAIN lastSet)
    => /\ adminResp.status = 200
       /\ adminResp.body = lastSet[adminResp.arg.callsign]

\* a get_route returned a record that set_route had stored over a value of
\* the pipeline
C6_Witness ==
    /\ adminResp.op = "get_route"
    /\ adminResp.status = 200
    /\ adminResp.arg.callsign \in DOMAIN lastSet
    /\ adminResp.arg.callsign \in PipelineCallsigns
    /\ adminResp.body.plausible = 0

\* C7: a database endpoint called without the header or with a header other
\* than the secret answers 403, returns no data, issues no store command and
\* changes neither the store nor a listing in progress; with the secret the
\* answer is never 403.
C7_Unauthorized ==
    /\ [](adminResp.op # "none" =>
            IF adminResp.cred = settings_api_key
            THEN adminResp.status # 403
            ELSE /\ adminResp.status = 403
                 /\ adminResp.body = None
                 /\ adminResp.storeOps = 0)
    /\ [][(adminResp' # adminResp /\ adminResp'.cred # settings_api_key)
            => store' = store /\ listing' = listing /\ lastSet' = lastSet]_vars

\* a set_route with a wrong credential was refused while the store was
\* not empty
C7_Witness ==
    /\ adminResp.op = "set_route"
    /\ adminResp.cred = "guess"
    /\ adminResp.status = 403
    /\ DOMAIN store # {}

\* the callsign of a key: the key without the route: prefix
StripPrefix(key) == SubSeq(key, Len(RoutePrefix) + 1, Len(key))

\* the callsigns of the keys present whose record has the plausible flag p
CallsignsWithFlag(p) ==
    {StripPrefix(key) : key \in {k \in DOMAIN store : store[k].obj["plausible"] = p}}

\* every value of the store is a complete record with plausible 0 or 1
OnlyWellFormedRecords ==
    \A key \in DOMAIN store :
        /\ store[key].kind = "json"
        /\ {IataAlias, "airport_codes", "callsign", "plausible"}
              \subseteq DOMAIN store[key].obj
        /\ store[key].obj["plausible"] \in {0, 1}

\* the elements of a sequence
Elements(s) == {s[i] : i \in 1..Len(s)}

\* C8: on a store of well-formed records that is not modified during the
\* call, plausible_callsigns answers with exactly the callsigns whose record
\* has plausible = 1 and unplausible_callsigns with exactly those with
\* plausible = 0, each once (so the two answers are disjoint and together
\* are the callsigns present), for any number of records, zero included.
C8_PlausibilityPartition ==
    [][(/\ adminResp' # adminResp
        /\ adminResp'.op \in ListingOps
        /\ adminResp'.cred = settings_api_key
        /\ adminResp'.exc # "ConnectionError"
        /\ OnlyWellFormedRecords
        /\ listing.pc = "scanned" => Elements(listing.keys) = DOMAIN store)
       => /\ adminResp'.status = 200
          /\ Elements(adminResp'.body.callsigns) =
                CallsignsWithFlag(PlausibleArg(adminResp'.op))
          /\ Len(adminResp'.body.callsigns) =
                Cardinality(CallsignsWithFlag(PlausibleArg(adminResp'.op)))]_vars

\* C9: all_callsigns answers with exactly the callsigns c for which a key
\* route:c is present, each unchanged and once.
C9_AllCallsigns ==
    (adminResp.op = "all_callsigns" /\ adminResp.status = 200)
    => /\ Elements(adminResp.body.callsigns) =
             {StripPrefix(key) : key \in DOMAIN store}
       /\ Len(adminResp.body.callsigns) = Cardinality(DOMAIN store)

(***************************************************************************)
(* The frame of the store, checked under SpecFrame.                        *)
(***************************************************************************)
\* C11: a step changes the store only if it is an authorized set_route that
\* succeeded, and then only the key route:{callsign} of its record; no step
\* of the batch endpoint, of a lookup, of a listing or of a rejected request
\* changes a key, and no step removes one.
C11_OnlySetRouteWrites ==
    [][/\ DOMAIN store \subseteq DOMAIN store'
       /\ store' # store =>
             /\ adminResp'.op = "set_route"
             /\ adminResp'.status = 200
             /\ adminResp'.cred = settings_api_key
             /\ UNCHANGED <<batchVars, listing>>
             /\ DOMAIN store' = DOMAIN store \cup {RouteKey(adminResp'.arg.callsign)}
             /\ \A key \in DOMAIN store :
                   key # RouteKey(adminResp'.arg.callsign) => store'[key] = store[key]
       /\ (adminResp' # adminResp /\ adminResp'.status # 200) => store' = store
       /\ (response' # response /\ response'.status = 413) => store' = store]_vars

\* a set_route has written next to another key, after the batch endpoint
\* had refused a batch and a request without credential had been refused
C11_Witness ==
    /\ adminResp.op = "set_route"
    /\ adminResp.status = 200
    /\ Cardinality(DOMAIN store) >= 2
    /\ response.status = 413

(***************************************************************************)
(* The identity of a returned record, checked under SpecLookup over every  *)
(* store the pipeline may have left.                                       *)
(***************************************************************************)
\* C12: the record returned by resolving a callsign c, as a batch item or
\* by get_route, has its callsign field equal to c, whether it was
\* synthesized as unknown or read from the value stored under route:c.
C12_CallsignEchoesQuery ==
    /\ \A i \in 1..Len(tasks) :
          tasks[i].status = "done"
          => tasks[i].result.callsign = tasks[i].callsign
    /\ (adminResp.op = "get_route" /\ adminResp.status = 200)
       => adminResp.body.callsign = adminResp.arg.callsign

\* C14: when the store holds no route: key, plausible_callsigns and
\* unplausible_callsigns issue no multi-get (the scan is their only store
\* operation) and answer with an empty list.  Keys are never removed, so a
\* store without route: keys had none when the listing scanned it.
C14_EmptyStoreEmptyList ==
    (/\ adminResp.op \in ListingOps
     /\ adminResp.cred = settings_api_key
     /\ adminResp.exc # "ConnectionError"
     /\ {key \in DOMAIN store : MatchesRouteGlob(key)} = {})
    => /\ adminResp.storeOps = 1
       /\ adminResp.status = 200
       /\ adminResp.body = [callsigns |-> <<>>]

\* a value that is present but is not a RouteRecord: not JSON, or JSON
\* lacking a required field
Malformed(value) ==
    /\ value # None
    /\ value # StoreError
    /\ \/ value.kind # "json"
       \/ ~({"airport_codes", "callsign", "plausible"} \subseteq DOMAIN value.obj)
       \/ {IataAlias, IataName} \cap DOMAIN value.obj = {}

\* C15: resolving a callsign whose stored value is present but malformed
\* ends in a server fault, as a batch item and by get_route, and never in
\* the unknown record; the unknown record is returned only when the store
\* reports the key as absent.
C15_MalformedIsAFault ==
    /\ \A i \in 1..Len(tasks) :
          /\ (tasks[i].status \in {"done", "failed"} /\ Malformed(tasks[i].reply))
             => tasks[i].status = "failed"
          /\ (tasks[i].status = "done"
                /\ tasks[i].result = UnknownRecordFor(tasks[i].callsign))
             => tasks[i].reply = None
    /\ (pc = "done" /\ \E i \in 1..Len(tasks) : Malformed(tasks[i].reply))
       => response.status = 500
    /\ (adminResp.op = "get_route" /\ adminResp.cred = settings_api_key)
       => /\ Malformed(StoreGet(RouteKey(adminResp.arg.callsign)))
             => (adminResp.status = 500 /\ adminResp.body = None)
          /\ (adminResp.status = 200
                /\ adminResp.body = UnknownRecordFor(adminResp.arg.callsign))
             => RouteKey(adminResp.arg.callsign) \notin DOMAIN store

\* a batch item and a single lookup each met a malformed value, one that is
\* not JSON and one that lacks a field
C15_Witness ==
    /\ pc = "done"
    /\ response.status = 500
    /\ Len(tasks) = 1
    /\ Malformed(tasks[1].reply)
    /\ tasks[1].reply.kind = "json"
    /\ adminResp.op = "get_route"
    /\ adminResp.exc = "JSONDecodeError"

(***************************************************************************)
(* The listings by plausibility while keys vanish, checked under           *)
(* SpecVanish.                                                             *)
(***************************************************************************)
\* the callsigns of the scanned keys that still have a value with the flag
\* p, each judged by the value under its own key, in scan order
ClassifiedByOwnValue(keys, p) ==
    LET own(key) == /\ key \in DOMAIN store
                    /\ "plausible" \in DOMAIN store[key].obj
                    /\ store[key].obj["plausible"] = p
        kept == SelectSeq(keys, own)
    IN  [n \in 1..Len(kept) |-> SplitColon1(kept[n])]

\* C13: when the multi-get of a listing by plausibility runs after scanned
\* keys have vanished, and the store answers with JSON for those that are
\* left, the listing does not fail: it answers 200 with the callsigns of
\* the scanned keys that are still present and carry the flag asked for,
\* each judged by its own value.
C13_VanishedKeySkipped ==
    [][(/\ listing.pc = "scanned"
        /\ listing'.pc = "idle"
        /\ adminResp'.exc # "ConnectionError"
        /\ \A i \in 1..Len(listing.keys) :
              listing.keys[i] \in DOMAIN store
              => json_loadable(store[listing.keys[i]]))
       => /\ adminResp'.status = 200
          /\ adminResp'.body.callsigns =
                ClassifiedByOwnValue(listing.keys, listing.plausible)]_vars

\* a listing has answered after a scanned key had vanished, and a key that
\* was left is in the answer
C13_Witness ==
    /\ skipped > 0
    /\ adminResp.op \in ListingOps
    /\ adminResp.status = 200
    /\ Len(adminResp.body.callsigns) >= 1

(***************************************************************************)
(* The end of a batch request, checked under SpecFair.                     *)
(***************************************************************************)
\* the batch request has been answered by the handler (not refused)
Answered == pc = "done" /\ response.status \in {200, 500}

AllLookupsCompleted ==
    \A i \in 1..Len(tasks) : tasks[i].status \in {"done", "failed"}

\* C17 as claimed: a batch request is answered only after every launched
\* lookup has completed, and every accepted batch request is eventually
\* answered.
C17_AnswersAfterEveryLookup ==
    /\ [](Answered => AllLookupsCompleted)
    /\ (pc = "gather" ~> pc = "done")

\* C17 as amended: the full list is answered only after every launched
\* lookup has completed with a record; a failure is answered as soon as
\* one lookup has failed, while others may still be outstanding; and
\* every accepted batch request is eventually answered.
C17_AnswersListAfterEveryLookup ==
    /\ [](response.status = 200
            => \A i \in 1..Len(tasks) : tasks[i].status = "done")
    /\ [](response.status = 500
            => \E i \in 1..Len(tasks) : tasks[i].status = "failed")
    /\ (pc = "gather" ~> pc = "done")

\* a list of two records has been answered
C17_Witness ==
    /\ response.status = 200
    /\ Len(response.body) = 2
    /\ \A i \in 1..Len(tasks) : tasks[i].status = "done"

(***************************************************************************)
(* Concurrent writers, checked under SpecWriters.                          *)
(***************************************************************************)
\* the stored form of a request
Serialized(route) ==
    [kind |-> "json",
     obj |-> [_airport_codes_iata |-> route.airport_codes_iata,
              airport_codes |-> route.airport_codes,
              callsign |-> route.callsign,
              plausible |-> route.plausible]]

\* C16: with concurrent authorized set_route requests for one callsign and
\* concurrent reads, the value under route:{callsign} is at every moment,
\* and so once all have completed, the serialized record of the request
\* whose write was applied last; a read returns the record of one request,
\* never a mix of two; and a write the store has applied is answered with
\* success whatever value was there before.
C16_LastWriterWins ==
    /\ \A c \in DOMAIN lastSet :
          /\ RouteKey(c) \in DOMAIN store
          /\ store[RouteKey(c)] = Serialized(lastSet[c])
    /\ \A key \in DOMAIN store :
          \E route \in WriterRoutes : store[key] = Serialized(route)
    /\ (adminResp.op = "get_route" /\ adminResp.exc # "ConnectionError")
       => /\ adminResp.status = 200
          /\ adminResp.body \in
                WriterRoutes \cup {UnknownRecordFor(adminResp.arg.callsign)}
    /\ (adminResp.op = "set_route" /\ adminResp.cred = settings_api_key
           /\ adminResp.exc # "ConnectionError")
       => /\ adminResp.status = 200
          /\ adminResp.arg.callsign \in DOMAIN lastSet

\* a write for a callsign has been applied and answered
\* while another write for the same callsign, with another record, is
\* still outstanding
C16_Witness ==
    /\ adminResp.op = "set_route"
    /\ adminResp.status = 200
    /\ adminResp.arg.callsign = AFR1
    /\ adminResp.arg.plausible = 0
    /\ store[RouteKey(AFR1)] = Serialized(adminResp.arg)
    /\ \E wr \in inflight :
          /\ wr.route.callsign = AFR1
          /\ wr.route.plausible = 1
          /\ wr.w = 1

\* C18: from an empty store, after any interleaving of authorized set_route
\* requests, every key has the form route:c and the record stored under it
\* has the callsign c.
C18_KeyMatchesCallsign ==
    \A key \in DOMAIN store :
        /\ MatchesRouteGlob(key)
        /\ json_loadable(store[key])
        /\ json_loads(store[key])["callsign"] = StripPrefix(key)

\* both callsigns have been written, one of them with a colon in it, and a
\* write is still outstanding
C18_Witness ==
    /\ DOMAIN store = {RouteKey(AFR1), RouteKey(AB1cX)}
    /\ json_loads(store[RouteKey(AB1cX)])["plausible"] = 0
    /\ inflight # {}

(***************************************************************************)
(* A batch next to concurrent writers, checked under SpecConc.  held is    *)
(* the set of the stores that existed between the arrival of the batch     *)
(* request and its response.                                               *)
(***************************************************************************)
\* the record a stored value encodes
StoredRecord(value) ==
    [airport_codes_iata |-> value.obj[IataAlias],
     airport_codes |-> value.obj["airport_codes"],
     callsign |-> value.obj["callsign"],
     plausible |-> value.obj["plausible"]]

\* what a store s holds for callsign c, as a response record
RecordIn(s, c) ==
    IF RouteKey(c) \in DOMAIN s THEN StoredRecord(s[RouteKey(c)])
    ELSE UnknownRecordFor(c)

\* C19: each record of a batch response is the unknown default, the store
\* having reported the key absent to that item's own get, or exactly a
\* record that was stored under the item's key at some moment between the
\* start of the batch request and its response; nothing is served from an
\* earlier request.
C19_LiveReads ==
    response.status = 200 =>
        \A i \in 1..Len(response.body) :
            /\ \E s \in held : response.body[i] = RecordIn(s, tasks[i].callsign)
            /\ response.body[i] = UnknownRecordFor(tasks[i].callsign)
               <=> tasks[i].reply = None

\* a response of two records that no single store of the interval
\* explains: the batch is not a snapshot
C19_Witness ==
    /\ response.status = 200
    /\ Len(response.body) = 2
    /\ \A s \in held :
          \E i \in 1..2 : response.body[i] # RecordIn(s, tasks[i].callsign)

====
